---- MODULE Spec2Model ----
(***************************************************************************)
(* A model of fastapi_filter/base/filter.py: the ordering validators of    *)
(* BaseFilterModel, with_prefix, _list_to_str_fields and FilterDepends.    *)
(*                                                                         *)
(* Strings are sequences of one-character strings, so that str.strip,      *)
(* str.replace, str.removeprefix and str.join are modelled by what they do *)
(* to the characters.                                                      *)
(***************************************************************************)
EXTENDS Integers, Sequences, FiniteSets, TLC

VARIABLES
    modelAttrs,   \* the attribute names of Constants.model
    value,        \* the ordering values: the raw input, then each validator's result
    raised,       \* the ValueError a validator raised, or NoError
    hist,         \* the validators applied so far, in order
    classes,      \* the schema classes: the declared filter, then the derived ones
    consts,       \* the Constants classes: each one's base and own prefix attribute
    request,      \* the mapping a request supplies
    last          \* the last operation and what it returned or raised

orderVars == <<value, raised, hist>>

schemaVars == <<classes, consts, request, last>>

vars == <<modelAttrs, value, raised, hist, classes, consts, request, last>>

(***************************************************************************)
(* Bounds                                                                  *)
(***************************************************************************)
\* longest raw ordering token, in characters
MaxTokenLen == 2
\* longest raw ordering value, in tokens
MaxTokens == 2
\* longest ordering value made of [marker]attribute tokens only
MaxMarkedTokens == 4
\* most classes derived (with_prefix, FilterDepends) from the declared filter
MaxDerived == 2
\* longest default list of a field drawn from the field pool
MaxDefaultLen == 2

(***************************************************************************)
(* Characters and strings                                                  *)
(***************************************************************************)
\* the characters raw ordering tokens are made of ("+" comes with the
\* [+|-]attribute tokens)
Alphabet == {"a", "-", " "}

\* ord(c) for the characters used
Ord(c) ==
    CASE c = " " -> 32
      [] c = "+" -> 43
      [] c = "," -> 44
      [] c = "-" -> 45
      [] c = "_" -> 95
      [] c = "a" -> 97
      [] c = "b" -> 98
      [] c = "n" -> 110
      [] c = "p" -> 112
      [] c = "x" -> 120
      [] OTHER -> 127

\* all sequences over elems of length at most n
SeqsUpTo(elems, n) == UNION {[1..k -> elems] : k \in 0..n}

\* Python's str < str: lexicographic by code point
RECURSIVE StrLess(_, _)
StrLess(s, t) ==
    IF t = <<>> THEN FALSE
    ELSE IF s = <<>> THEN TRUE
    ELSE IF Head(s) = Head(t) THEN StrLess(Tail(s), Tail(t))
    ELSE Ord(Head(s)) < Ord(Head(t))

IsSpace(c) == c = " "

\* str.lstrip()
RECURSIVE LStrip(_)
LStrip(s) ==
    IF s # <<>> /\ IsSpace(Head(s)) THEN LStrip(Tail(s)) ELSE s

\* str.rstrip()
RECURSIVE RStrip(_)
RStrip(s) ==
    IF s # <<>> /\ IsSpace(s[Len(s)]) THEN RStrip(SubSeq(s, 1, Len(s) - 1)) ELSE s

\* str.strip()
Strip(s) == RStrip(LStrip(s))

\* str.replace(c, ""): every occurrence of the character c removed
RECURSIVE RemoveChar(_, _)
RemoveChar(s, c) ==
    IF s = <<>> THEN <<>>
    ELSE IF Head(s) = c THEN RemoveChar(Tail(s), c)
    ELSE <<Head(s)>> \o RemoveChar(Tail(s), c)

\* sep.join(parts)
RECURSIVE Join(_, _)
Join(parts, sep) ==
    IF parts = <<>> THEN <<>>
    ELSE IF Len(parts) = 1 THEN parts[1]
    ELSE parts[1] \o sep \o Join(Tail(parts), sep)

\* sorted(S) for a set of strings
RECURSIVE SortedStrings(_)
SortedStrings(S) ==
    IF S = {} THEN <<>>
    ELSE LET least == CHOOSE s \in S : \A t \in S \ {s} : StrLess(s, t)
         IN  <<least>> \o SortedStrings(S \ {least})

(***************************************************************************)
(* Ordering values: None or a list of tokens                               *)
(***************************************************************************)
None == [none |-> TRUE, toks |-> <<>>]
List(toks) == [none |-> FALSE, toks |-> toks]

\* Python truthiness of an ordering value: None and [] are falsy
Truthy(v) == ~v.none /\ v.toks # <<>>

NoError == [kind |-> "none", arg |-> <<>>]
\* ValueError(f"{field_name} is not a valid ordering field.")
InvalidField(field_name) == [kind |-> "invalid_field", arg |-> field_name]
\* ValueError("Field names can appear at most once ... ambiguous: {names}.")
Ambiguous(names) == [kind |-> "ambiguous", arg |-> names]

\* what a validator does: return a value or raise
Return(v) == [value |-> v, raised |-> NoError]
Raise(e) == [value |-> None, raised |-> e]

(***************************************************************************)
(* BaseFilterModel: the ordering validators                                *)
(***************************************************************************)
\* Constants.ordering_field_name
ordering_field_name == <<"o", "r", "d", "e", "r", "_", "b", "y">>

\* hasattr(cls.Constants.model, field_name)
hasattr(attrs, field_name) == field_name \in attrs

\* field_name_with_direction.replace("-", "").replace("+", "")
BaseFieldName(field_name_with_direction) ==
    RemoveChar(RemoveChar(field_name_with_direction, "-"), "+")

\* the loop body of strip_order_by_values over the remaining tokens
RECURSIVE StrippedValues(_)
StrippedValues(toks) ==
    IF toks = <<>> THEN <<>>
    ELSE LET stripped_value == Strip(Head(toks))
         IN  IF stripped_value # <<>>
             THEN <<stripped_value>> \o StrippedValues(Tail(toks))
             ELSE StrippedValues(Tail(toks))

strip_order_by_values(v, field_name) ==
    IF field_name # ordering_field_name THEN Return(v)
    ELSE IF ~Truthy(v) THEN Return(None)
    ELSE Return(List(StrippedValues(v.toks)))

\* field_name_usages[name] once the loop has run over toks: the tokens whose
\* base field name is name, in input order
FieldNameUsages(toks, name) ==
    SelectSeq(toks, LAMBDA t : BaseFieldName(t) = name)

\* duplicated_field_names once the loop has run over toks
DuplicatedFieldNames(toks) ==
    {BaseFieldName(toks[i]) : i \in 1..Len(toks)} \cap
    {name \in {BaseFieldName(toks[i]) : i \in 1..Len(toks)} :
        Len(FieldNameUsages(toks, name)) > 1}

\* the tokens the error message lists: for each duplicated name in sorted
\* order, its usages in input order
RECURSIVE AmbiguousTokens(_, _)
AmbiguousTokens(toks, sortedNames) ==
    IF sortedNames = <<>> THEN <<>>
    ELSE FieldNameUsages(toks, Head(sortedNames))
            \o AmbiguousTokens(toks, Tail(sortedNames))

\* the ambiguous tokens joined in input order, not grouped by sorted name
AmbiguousFieldNamesUnsorted(toks) ==
    Join(SelectSeq(toks, LAMBDA t : BaseFieldName(t) \in DuplicatedFieldNames(toks)),
         <<",", " ">>)

\* ", ".join([...]) of the ambiguous tokens
AmbiguousFieldNames(toks) ==
    Join(AmbiguousTokens(toks, SortedStrings(DuplicatedFieldNames(toks))),
         <<",", " ">>)

\* the first token, in input order, whose base field name is no attribute
\* of the model (0 when there is none)
FirstInvalid(toks, attrs) ==
    LET bad == {i \in 1..Len(toks) : ~hasattr(attrs, BaseFieldName(toks[i]))}
    IN  IF bad = {} THEN 0 ELSE CHOOSE i \in bad : \A j \in bad : i <= j

\* validate_order_by handing an empty value back instead of None
validate_order_by_keeps_empty(v, field_name, attrs) ==
    IF field_name # ordering_field_name \/ ~Truthy(v) THEN Return(v)
    ELSE IF FirstInvalid(v.toks, attrs) # 0
         THEN Raise(InvalidField(BaseFieldName(v.toks[FirstInvalid(v.toks, attrs)])))
    ELSE IF DuplicatedFieldNames(v.toks) # {}
         THEN Raise(Ambiguous(AmbiguousFieldNames(v.toks)))
    ELSE Return(v)

validate_order_by(v, field_name, attrs) ==
    IF field_name # ordering_field_name THEN Return(v)
    ELSE IF ~Truthy(v) THEN Return(None)
    ELSE IF FirstInvalid(v.toks, attrs) # 0
         THEN Raise(InvalidField(BaseFieldName(v.toks[FirstInvalid(v.toks, attrs)])))
    ELSE IF DuplicatedFieldNames(v.toks) # {}
         THEN Raise(Ambiguous(AmbiguousFieldNames(v.toks)))
    ELSE Return(v)

(***************************************************************************)
(* The ordering validators applied to bounded inputs                       *)
(***************************************************************************)
A == <<"a">>
B == <<"b">>
AB == <<"a", "b">>

\* the target models: their attribute names
ModelChoices == {{A}, {A, B, AB}}

\* raw tokens: every string over the alphabet
RawTokens == SeqsUpTo(Alphabet, MaxTokenLen)

\* tokens of the form [+|-]attribute
MarkedTokens(attrs) == {m \o n : m \in {<<>>, <<"+">>, <<"-">>}, n \in attrs}

InitOrder ==
    /\ modelAttrs \in ModelChoices
    /\ \/ value = <<None>>
       \/ \E k \in 0..MaxTokens :
             \E toks \in [1..k -> RawTokens] : value = <<List(toks)>>
       \/ \E k \in 0..MaxMarkedTokens :
             \E toks \in [1..k -> MarkedTokens(modelAttrs)] : value = <<List(toks)>>
    /\ raised = NoError
    /\ hist = <<>>
    /\ classes = <<>>
    /\ consts = <<>>
    /\ request = <<>>
    /\ last = [op |-> "none"]

\* the validator pipelines applied: strip, validate, and both once more on
\* the processed result; or validate alone on the raw value
Pipelines == {<<"strip", "validate", "strip", "validate">>, <<"validate">>}

CanApply(name) ==
    /\ raised = NoError
    /\ \E p \in Pipelines :
          /\ Len(hist) < Len(p)
          /\ SubSeq(p, 1, Len(hist) + 1) = Append(hist, name)

ApplyStrip ==
    /\ CanApply("strip")
    /\ \E r \in {strip_order_by_values(value[Len(value)], ordering_field_name)} :
          /\ value' = Append(value, r.value)
          /\ raised' = r.raised
    /\ hist' = Append(hist, "strip")
    /\ UNCHANGED <<modelAttrs, schemaVars>>

ApplyValidate ==
    /\ CanApply("validate")
    /\ \E r \in {validate_order_by(value[Len(value)], ordering_field_name, modelAttrs)} :
          /\ value' = Append(value, r.value)
          /\ raised' = r.raised
    /\ hist' = Append(hist, "validate")
    /\ UNCHANGED <<modelAttrs, schemaVars>>

NextOrder == ApplyStrip \/ ApplyValidate

SpecOrder == InitOrder /\ [][NextOrder]_vars

(***************************************************************************)
(* Claims about the ordering validators (checked under SpecOrder)          *)
(***************************************************************************)
\* a token with only its leading direction marker removed
LeadingMarkerRemoved(tok) ==
    IF tok # <<>> /\ Head(tok) \in {"+", "-"} THEN Tail(tok) ELSE tok

\* validate_order_by has just been applied to a non-empty token sequence
Validated == hist # <<>> /\ hist[Len(hist)] = "validate" /\ Truthy(value[Len(hist)])

\* the tokens validate_order_by was handed
ValidatedToks == value[Len(hist)].toks

\* the positions of the tokens whose base field name occurs more than once
DuplicatePositions(toks) ==
    {i \in 1..Len(toks) :
        \E j \in 1..Len(toks) :
            j # i /\ LeadingMarkerRemoved(toks[j]) = LeadingMarkerRemoved(toks[i])}

\* position i comes before position j in the message: by base field name,
\* then by place in the input
ListedBefore(toks, i, j) ==
    \/ StrLess(LeadingMarkerRemoved(toks[i]), LeadingMarkerRemoved(toks[j]))
    \/ LeadingMarkerRemoved(toks[i]) = LeadingMarkerRemoved(toks[j]) /\ i < j

RECURSIVE ListedTokens(_, _)
ListedTokens(toks, positions) ==
    IF positions = {} THEN <<>>
    ELSE LET first == CHOOSE i \in positions :
                          \A j \in positions \ {i} : ListedBefore(toks, i, j)
         IN  <<toks[first]>> \o ListedTokens(toks, positions \ {first})

AllBaseNamesExist(toks) ==
    \A i \in 1..Len(toks) : LeadingMarkerRemoved(toks[i]) \in modelAttrs

\* C1: a non-empty token sequence whose base field names all exist on the
\* model is rejected by validate_order_by exactly when some base field name
\* occurs in more than one token, and the error then lists every token of
\* every duplicated name, joined by ", ", grouped by name in sorted order and
\* in input order within a group.
C1_DuplicatesRejected ==
    (Validated /\ AllBaseNamesExist(ValidatedToks)) =>
        /\ (raised # NoError) <=> (DuplicatePositions(ValidatedToks) # {})
        /\ (raised # NoError) =>
              raised = Ambiguous(Join(ListedTokens(ValidatedToks,
                                         DuplicatePositions(ValidatedToks)),
                                      <<",", " ">>))

\* two names are duplicated and the input does not start with the least one
C1_Witness ==
    /\ Validated
    /\ AllBaseNamesExist(ValidatedToks)
    /\ Len(ValidatedToks) = 4
    /\ {LeadingMarkerRemoved(ValidatedToks[i]) : i \in DuplicatePositions(ValidatedToks)}
          = {A, B}
    /\ LeadingMarkerRemoved(ValidatedToks[1]) = B
    /\ ValidatedToks[2] = <<"-", "a">>
    /\ ValidatedToks[3] = <<"+", "b">>
    /\ raised.kind = "ambiguous"

\* C2: validate_order_by takes a token's base field name to be the token
\* with only its leading direction marker removed, and fails whenever that
\* name is no attribute of the model.
C2_LeadingMarkerOnly ==
    (Validated /\ ~AllBaseNamesExist(ValidatedToks)) => raised # NoError

\* C8: strip_order_by_values then validate_order_by, applied again to the
\* result of a first pass that raised nothing, raises nothing and returns
\* that same result.
C8_StripValidateIdempotent ==
    (Len(hist) = 4) => (raised = NoError /\ value[5] = value[3])

\* the first pass trimmed one token and dropped a blank one
C8_Witness ==
    /\ Len(hist) = 4
    /\ raised = NoError
    /\ Len(value[1].toks) = 2
    /\ Len(value[3].toks) = 1
    /\ value[3].toks[1] \notin {value[1].toks[1], value[1].toks[2]}

\* the first pass turned a sequence of blank tokens into None
C8_WitnessBlank ==
    /\ Len(hist) = 4
    /\ Truthy(value[1])
    /\ value[2] = List(<<>>)
    /\ value[5] = None

(***************************************************************************)
(* Values, annotations and field descriptors                               *)
(***************************************************************************)
NoneV == [t |-> "none", v |-> <<>>]
IntV(n) == [t |-> "int", v |-> n]
StrV(s) == [t |-> "str", v |-> s]
ListV(l) == [t |-> "list", v |-> l]
\* PydanticUndefined: the default of a required field
Undefined == [t |-> "undefined", v |-> <<>>]

IntT == [origin |-> "", name |-> "int", args |-> <<>>]
StrT == [origin |-> "", name |-> "str", args |-> <<>>]
NoneT == [origin |-> "", name |-> "NoneType", args |-> <<>>]
\* the bare class list
BareList == [origin |-> "", name |-> "list", args |-> <<>>]
\* List[T]
ListOf(T) == [origin |-> "list", name |-> "List", args |-> <<T>>]
\* Union[...]
UnionOf(args) == [origin |-> "Union", name |-> "Union", args |-> args]
\* Optional[T]
OptionalOf(T) == UnionOf(<<T, NoneT>>)

\* a FieldInfo with the name it is declared under
Field(name, annotation, default) ==
    [name |-> name, annotation |-> annotation, default |-> default, alias |-> <<>>]

\* FieldInfo.is_required()
is_required(f) == f.default = Undefined

(***************************************************************************)
(* _list_to_str_fields                                                     *)
(***************************************************************************)
\* list.remove(type(None)): the first NoneType removed
RECURSIVE RemoveFirstNone(_)
RemoveFirstNone(args) ==
    IF args = <<>> THEN <<>>
    ELSE IF Head(args) = NoneT THEN Tail(args)
    ELSE <<Head(args)>> \o RemoveFirstNone(Tail(args))

\* the unwrapping taking the first alternative besides NoneType however
\* many there are
ResolvedAnnotationFirst(annotation) ==
    IF annotation.origin = "Union" /\ RemoveFirstNone(annotation.args) # <<>>
    THEN RemoveFirstNone(annotation.args)[1]
    ELSE annotation

\* the annotation the list test is made on: a union with one alternative
\* besides NoneType is unwrapped to it
ResolvedAnnotation(annotation) ==
    IF annotation.origin = "Union"
    THEN LET annotation_args == RemoveFirstNone(annotation.args)
         IN  IF Len(annotation_args) = 1 THEN annotation_args[1] ELSE annotation
    ELSE annotation

\* annotation is list or get_origin(annotation) is list
IsListAnnotation(annotation) ==
    annotation = BareList \/ annotation.origin = "list"

\* isinstance(default, Iterable)
IsIterable(default) == default.t \in {"list", "str"}

\* the items iterating over a default yields
Items(default) ==
    IF default.t = "str"
    THEN [i \in 1..Len(default.v) |-> StrV(<<default.v[i]>>)]
    ELSE default.v

\* ",".join(default) raises TypeError unless every item is a str
JoinRaises(default) ==
    \E i \in 1..Len(Items(default)) : Items(default)[i].t # "str"

\* ",".join(default)
JoinedDefault(default) ==
    StrV(Join([i \in 1..Len(Items(default)) |-> Items(default)[i].v], <<",">>))

\* the loop body: the (type, FieldInfo) pair kept for field f of the filter
AdaptedField(f) ==
    IF IsListAnnotation(ResolvedAnnotation(f.annotation))
    THEN [f EXCEPT !.annotation = IF is_required(f) THEN StrT ELSE OptionalOf(StrT),
                   !.default = IF IsIterable(f.default)
                               THEN JoinedDefault(f.default) ELSE f.default]
    ELSE f

\* the loop body raises TypeError on field f
AdaptRaises(f) ==
    /\ IsListAnnotation(ResolvedAnnotation(f.annotation))
    /\ IsIterable(f.default)
    /\ JoinRaises(f.default)

\* Filter.model_fields once _list_to_str_fields has run: the loop works on
\* a deepcopy of each FieldInfo
FieldsAfterAdapt(fields) == fields

_list_to_str_fields(fields) ==
    IF \E i \in 1..Len(fields) : AdaptRaises(fields[i])
    THEN [raised |-> "TypeError", ret |-> <<>>]
    ELSE [raised |-> "", ret |-> [i \in 1..Len(fields) |-> AdaptedField(fields[i])]]

(***************************************************************************)
(* Schema classes and their Constants                                      *)
(***************************************************************************)
X == <<"x">>
NX == <<"n", "x">>
T == <<"t">>
\* a name no filter declares
ZZ == <<"z", "z">>

\* the Constants class declared in a filter's body: a subclass of
\* BaseFilterModel.Constants (base 0), which sets no prefix
DeclaredConstants == [base |-> 0, has_prefix |-> FALSE, prefix |-> <<>>]

\* a declared filter: class F(BaseFilterModel) with extra="forbid"
FilterClass(fields) ==
    [kind |-> "filter", of |-> 0, fields |-> fields, extra |-> "forbid",
     validators |-> TRUE, constants |-> 1, prefix |-> <<>>, by_alias |-> FALSE]

\* getattr(Constants, "prefix") through the bases of Constants class id
RECURSIVE ConstantsPrefix(_, _)
ConstantsPrefix(cs, id) ==
    IF id = 0 THEN [found |-> FALSE, prefix |-> <<>>]
    ELSE IF cs[id].has_prefix THEN [found |-> TRUE, prefix |-> cs[id].prefix]
    ELSE ConstantsPrefix(cs, cs[id].base)

\* alias_generator=lambda string: f"{prefix}__{string}"
alias_generator(prefix, string) == prefix \o <<"_", "_">> \o string

\* with_prefix setting the prefix on the Constants class the filter already
\* has, without a Constants subclass of the nested filter's own
NestedConstantsShared(cs, filterConstants, prefix) ==
    [heap |-> [cs EXCEPT ![filterConstants] =
                  [@ EXCEPT !.has_prefix = TRUE, !.prefix = prefix]],
     id |-> filterConstants]

\* class Constants(Filter.Constants) in NestedFilter's body, then
\* NestedFilter.Constants.prefix = prefix
NestedConstants(cs, filterConstants, prefix) ==
    [heap |-> Append(cs, [base |-> filterConstants, has_prefix |-> TRUE,
                          prefix |-> prefix]),
     id |-> Len(cs) + 1]

\* class NestedFilter(Filter) with its alias generator
NestedFilter(filterIndex, Filter, prefix, constantsId) ==
    [kind |-> "nested", of |-> filterIndex,
     fields |-> [i \in 1..Len(Filter.fields) |->
                    [Filter.fields[i] EXCEPT
                        !.alias = alias_generator(prefix, Filter.fields[i].name)]],
     extra |-> "forbid", validators |-> TRUE, constants |-> constantsId,
     prefix |-> prefix, by_alias |-> FALSE]

\* create_model(name, **fields) gets no __base__ and no __config__: the
\* generated class is a plain BaseModel, whose extra defaults to "ignore",
\* and has none of BaseFilterModel's validators
create_model(fields) ==
    [kind |-> "wrapper", of |-> 0, fields |-> fields, extra |-> "ignore",
     validators |-> FALSE, constants |-> 0, prefix |-> <<>>, by_alias |-> FALSE]

\* class FilterWrapper(GeneratedFilter), closing over Filter and by_alias
FilterWrapper(filterIndex, fields, by_alias) ==
    [create_model(fields) EXCEPT !.of = filterIndex, !.by_alias = by_alias]

(***************************************************************************)
(* Mappings: dicts as sequences of key/value pairs in insertion order      *)
(***************************************************************************)
Pair(k, v) == [k |-> k, v |-> v]

HasKey(d, k) == \E i \in 1..Len(d) : d[i].k = k

Get(d, k) == d[CHOOSE i \in 1..Len(d) : d[i].k = k].v

\* d[k] = v
Put(d, k, v) ==
    IF HasKey(d, k)
    THEN [i \in 1..Len(d) |-> IF d[i].k = k THEN Pair(k, v) ELSE d[i]]
    ELSE Append(d, Pair(k, v))

\* str.removeprefix(prefix)
removeprefix(string, prefix) ==
    IF Len(string) >= Len(prefix) /\ SubSeq(string, 1, Len(prefix)) = prefix
    THEN SubSeq(string, Len(prefix) + 1, Len(string))
    ELSE string

\* str.split(sep) for a one-character separator
RECURSIVE Split(_, _)
Split(string, sep) ==
    IF \A i \in 1..Len(string) : string[i] # sep THEN <<string>>
    ELSE LET at == CHOOSE i \in 1..Len(string) :
                      string[i] = sep /\ \A j \in 1..(i - 1) : string[j] # sep
         IN  <<SubSeq(string, 1, at - 1)>>
                \o Split(SubSeq(string, at + 1, Len(string)), sep)

(***************************************************************************)
(* Constructing a schema instance: Filter(kwargs...)                        *)
(***************************************************************************)
\* the key a field is populated from: its alias when it has one
FieldKey(f) == IF f.alias # <<>> THEN f.alias ELSE f.name

\* the parsing of a comma-joined string back into a list, which the filter
\* classes do before any other validation of a list-typed field
split_str(f, v) ==
    IF IsListAnnotation(ResolvedAnnotation(f.annotation)) /\ v.t = "str"
    THEN LET parts == Split(v.v, ",")
         IN  ListV([i \in 1..Len(parts) |-> StrV(parts[i])])
    ELSE v

\* a field value as the ordering validators see it, and back
ToOrdering(v) ==
    IF v.t = "list" THEN List([i \in 1..Len(v.v) |-> v.v[i].v]) ELSE None

FromOrdering(o) ==
    IF o.none THEN NoneV ELSE ListV([i \in 1..Len(o.toks) |-> StrV(o.toks[i])])

\* the "before" validators of BaseFilterModel on field f: the string split,
\* then strip_order_by_values, then validate_order_by. (x \in {e} names the
\* value of e, so that e is evaluated once.)
BeforeValidators(cls, f, v, attrs) ==
    IF ~cls.validators THEN Return(v)
    ELSE IF f.name # ordering_field_name
         THEN CHOOSE r \in {validate_order_by(stripped.value, f.name, attrs) :
                               stripped \in {strip_order_by_values(split_str(f, v),
                                                                   f.name)}} : TRUE
    ELSE CHOOSE r \in
            {[value |-> FromOrdering(validated.value), raised |-> validated.raised] :
                validated \in
                   {validate_order_by(stripped.value, f.name, attrs) :
                       stripped \in {strip_order_by_values(
                                        ToOrdering(split_str(f, v)), f.name)}}} : TRUE

\* the value v is valid for the annotation
RECURSIVE Accepts(_, _)
Accepts(annotation, v) ==
    IF annotation.origin = "Union"
    THEN \E i \in 1..Len(annotation.args) : Accepts(annotation.args[i], v)
    ELSE IF annotation.origin = "list"
    THEN /\ v.t = "list"
         /\ \A i \in 1..Len(v.v) : Accepts(annotation.args[1], v.v[i])
    ELSE IF annotation = BareList THEN v.t = "list"
    ELSE IF annotation = NoneT THEN v.t = "none"
    ELSE IF annotation = IntT THEN v.t = "int"
    ELSE v.t = "str"

\* what a supplied field gives once its "before" validators have run
ValidatedField(f, before) ==
    IF before.raised # NoError
    THEN [ok |-> FALSE, set |-> TRUE, v |-> NoneV,
          error |-> [type |-> "value_error", loc |-> FieldKey(f),
                     ctx |-> before.raised]]
    ELSE IF ~Accepts(f.annotation, before.value)
    THEN [ok |-> FALSE, set |-> TRUE, v |-> NoneV,
          error |-> [type |-> "type_error", loc |-> FieldKey(f), ctx |-> NoError]]
    ELSE [ok |-> TRUE, set |-> TRUE, v |-> before.value, error |-> NoError]

\* what validating field f of the class against kwargs gives: a missing
\* required field is an error, a missing optional one takes its default
\* without validation
FieldResult(cls, f, kwargs, attrs) ==
    IF ~HasKey(kwargs, FieldKey(f))
    THEN IF is_required(f)
         THEN [ok |-> FALSE, set |-> FALSE, v |-> NoneV,
               error |-> [type |-> "missing", loc |-> FieldKey(f), ctx |-> NoError]]
         ELSE [ok |-> TRUE, set |-> FALSE, v |-> f.default, error |-> NoError]
    ELSE CHOOSE r \in
            {ValidatedField(f, before) :
                before \in {BeforeValidators(cls, f, Get(kwargs, FieldKey(f)),
                                             attrs)}} : TRUE

\* the field results of the class, in declaration order
RECURSIVE FieldResults(_, _, _, _)
FieldResults(cls, n, kwargs, attrs) ==
    IF n = 0 THEN <<>>
    ELSE Append(FieldResults(cls, n - 1, kwargs, attrs),
                FieldResult(cls, cls.fields[n], kwargs, attrs))

\* the keys of kwargs that are no field's key
ExtraKeys(cls, kwargs) ==
    SelectSeq([i \in 1..Len(kwargs) |-> kwargs[i].k],
              LAMBDA k : \A i \in 1..Len(cls.fields) : FieldKey(cls.fields[i]) # k)

\* the errors extra keys give under the class's extra policy
ExtraErrors(cls, kwargs) ==
    IF cls.extra = "forbid"
    THEN [i \in 1..Len(ExtraKeys(cls, kwargs)) |->
             [type |-> "extra_forbidden", loc |-> ExtraKeys(cls, kwargs)[i],
              ctx |-> NoError]]
    ELSE <<>>

\* the instance, or the errors of the ValidationError, the field results give
Constructed(cls, index, kwargs, results) ==
    LET errors == [i \in 1..Len(SelectSeq(results, LAMBDA r : ~r.ok)) |->
                      SelectSeq(results, LAMBDA r : ~r.ok)[i].error]
                     \o ExtraErrors(cls, kwargs)
    IN  IF \E i \in 1..Len(results) : ~results[i].ok
           \/ ExtraErrors(cls, kwargs) # <<>>
        THEN [ok |-> FALSE, errors |-> errors,
              inst |-> [cls |-> index, vals |-> <<>>, set |-> {}]]
        ELSE [ok |-> TRUE, errors |-> <<>>,
              inst |-> [cls |-> index,
                        vals |-> [i \in 1..Len(results) |-> results[i].v],
                        set |-> {cls.fields[i].name : i \in
                                    {j \in 1..Len(results) : results[j].set}}]]

\* cls(kwargs...) for class number index: an instance, or the errors of the
\* ValidationError raised
Construct(clss, index, kwargs, attrs) ==
    CHOOSE out \in
        {Constructed(clss[index], index, kwargs, results) :
            results \in {FieldResults(clss[index], Len(clss[index].fields),
                                      kwargs, attrs)}} : TRUE

\* self.model_dump(by_alias=by_alias): every field, by alias or by name
model_dump(clss, inst, by_alias) ==
    [i \in 1..Len(clss[inst.cls].fields) |->
        Pair(IF by_alias THEN FieldKey(clss[inst.cls].fields[i])
             ELSE clss[inst.cls].fields[i].name,
             inst.vals[i])]

(***************************************************************************)
(* BaseFilterModel.filtering_fields                                        *)
(***************************************************************************)
\* model_dump(exclude_none=True) alone: unset fields are kept
ExcludedDumpKeepsUnset(clss, inst) ==
    SelectSeq(model_dump(clss, inst, FALSE), LAMBDA p : p.v # NoneV)

\* self.model_dump(exclude_none=True, exclude_unset=True)
ExcludedDump(clss, inst) ==
    SelectSeq(model_dump(clss, inst, FALSE),
              LAMBDA p : p.k \in inst.set /\ p.v # NoneV)

\* fields.pop(key, None)
Pop(d, key) == SelectSeq(d, LAMBDA p : p.k # key)

\* the items of the mapping filtering_fields returns, in order
filtering_fields(clss, inst) == Pop(ExcludedDump(clss, inst), ordering_field_name)

(***************************************************************************)
(* with_prefix: plain_validator                                            *)
(***************************************************************************)
\* {k.removeprefix(prefix): v for k, v in value.items()}
RECURSIVE StrippedItems(_, _)
StrippedItems(items, prefix) ==
    IF items = <<>> THEN <<>>
    ELSE LET rest == StrippedItems(SubSeq(items, 1, Len(items) - 1), prefix)
             item == items[Len(items)]
         IN  Put(rest, removeprefix(item.k, prefix), item.v)

\* plain_validator(value) of the nested filter number nested; value is a
\* BaseModel instance, a dict or something else
plain_validator(clss, cs, nested, val, attrs) ==
    IF val.t \in {"model", "dict"}
    THEN CHOOSE out \in
            {[raised |-> IF built.ok THEN "" ELSE "ValidationError",
              inst |-> built.inst, errors |-> built.errors] :
                built \in
                   {Construct(clss, clss[nested].of,
                        StrippedItems(IF val.t = "model"
                                      THEN model_dump(clss, val.inst, FALSE)
                                      ELSE val.d,
                                      ConstantsPrefix(cs, clss[nested].constants).prefix),
                        attrs)}} : TRUE
    ELSE [raised |-> "ValueError", inst |-> [cls |-> 0, vals |-> <<>>, set |-> {}],
          errors |-> <<>>]

(***************************************************************************)
(* FilterDepends: FilterWrapper.filter and FilterWrapper.sort              *)
(***************************************************************************)
\* the ValidationError left to escape as it is
ReraiseInternal(errors) == [raised |-> "ValidationError", errors |-> errors]

\* except ValidationError as e: raise RequestValidationError(e.errors())
Reraise(errors) == [raised |-> "RequestValidationError", errors |-> errors]

\* what filter / sort does once Filter(...) has returned or raised
Delegated(method, built) ==
    IF built.ok
    THEN [method |-> method, validation |-> built,
          steps |-> <<"model_dump", "Filter", method>>,
          delegated |-> TRUE, original_filter |-> built.inst,
          raised |-> "", errors |-> <<>>]
    ELSE [method |-> method, validation |-> built,
          steps |-> <<"model_dump", "Filter", "raise">>,
          delegated |-> FALSE, original_filter |-> built.inst,
          raised |-> Reraise(built.errors).raised,
          errors |-> Reraise(built.errors).errors]

\* FilterWrapper.filter / FilterWrapper.sort on the bound instance self
FilterWrapperCall(clss, self, method, attrs) ==
    CHOOSE out \in
        {Delegated(method, built) :
            built \in {Construct(clss, clss[self.cls].of,
                                 model_dump(clss, self, clss[self.cls].by_alias),
                                 attrs)}} : TRUE

(***************************************************************************)
(* The declared filters and the requests                                   *)
(***************************************************************************)
a == <<"a">>
b == <<"b">>

\* count: Optional[int] = None; order_by: Optional[List[str]] = None
CountFilter ==
    <<Field(X, OptionalOf(IntT), NoneV),
      Field(ordering_field_name, OptionalOf(ListOf(StrT)), NoneV)>>

\* a field whose name starts with a prefix, a scalar default, a list default
TagsFilter ==
    <<Field(NX, OptionalOf(IntT), NoneV),
      Field(X, IntT, IntV(3)),
      Field(T, OptionalOf(ListOf(StrT)), ListV(<<StrV(a), StrV(b)>>)),
      Field(ordering_field_name, OptionalOf(ListOf(StrT)), NoneV)>>

\* a required field and a default list of ints
IdsFilter ==
    <<Field(X, IntT, Undefined),
      Field(T, OptionalOf(ListOf(IntT)), ListV(<<IntV(1), IntV(2)>>))>>

\* a default list whose one element holds a comma
CommaFilter ==
    <<Field(X, OptionalOf(IntT), NoneV),
      Field(T, ListOf(StrT), ListV(<<StrV(<<"a", ",", "b">>)>>))>>

Schemas == {CountFilter, TagsFilter, IdsFilter, CommaFilter}

\* the prefixes with_prefix is called with
Prefixes == {<<"n">>, <<"p">>}

N(name) == alias_generator(<<"n">>, name)
P(name) == alias_generator(<<"p">>, name)

Strs(l) == ListV([i \in 1..Len(l) |-> StrV(l[i])])

Requests ==
    { <<>>,
      <<Pair(X, IntV(5))>>,
      <<Pair(X, NoneV)>>,
      <<Pair(X, StrV(a))>>,
      <<Pair(X, IntV(5)), Pair(ZZ, IntV(1))>>,
      <<Pair(X, IntV(5)), Pair(ordering_field_name, Strs(<<<<"-", "x">>>>))>>,
      <<Pair(X, IntV(5)), Pair(ordering_field_name, StrV(<<"-", "x">>))>>,
      <<Pair(ordering_field_name, Strs(<<X, <<"-", "x">>>>))>>,
      <<Pair(ordering_field_name, StrV(<<"x", ",", "-", "x">>))>>,
      <<Pair(ordering_field_name, StrV(<<"-", "z", "z">>))>>,
      <<Pair(N(X), IntV(5))>>,
      <<Pair(P(X), IntV(5))>>,
      <<Pair(N(X), IntV(5)), Pair(ZZ, IntV(1))>>,
      <<Pair(N(X), IntV(5)), Pair(N(ordering_field_name), Strs(<<<<"-", "x">>>>))>>,
      <<Pair(N(X), IntV(5)), Pair(N(ordering_field_name), StrV(<<"x", ",", "+", "x">>))>>,
      <<Pair(NX, IntV(1))>>,
      <<Pair(NX, IntV(1)), Pair(X, IntV(2))>>,
      <<Pair(NX, IntV(1)), Pair(ordering_field_name, Strs(<<<<"-", "x">>>>))>>,
      <<Pair(N(NX), IntV(1)), Pair(N(X), IntV(2))>>,
      <<Pair(T, StrV(<<"a", ",", "b">>))>>,
      <<Pair(T, Strs(<<a, b>>))>>,
      <<Pair(X, IntV(5)), Pair(T, StrV(b))>>,
      <<Pair(N(X), IntV(5)), Pair(N(T), StrV(b))>> }

(***************************************************************************)
(* Operations                                                              *)
(***************************************************************************)
CanDerive == Len(classes) < 1 + MaxDerived

\* with_prefix(prefix, Filter) on the declared filter
WithPrefix ==
    /\ CanDerive
    /\ \E prefix \in Prefixes :
       \E made \in {NestedConstants(consts, classes[1].constants, prefix)} :
          /\ consts' = made.heap
          /\ classes' = Append(classes, NestedFilter(1, classes[1], prefix, made.id))
          /\ last' = [op |-> "with_prefix", cls |-> Len(classes) + 1]
    /\ UNCHANGED <<modelAttrs, orderVars, request>>

\* FilterDepends(Filter, by_alias=by_alias) on a declared or nested filter
FilterDepends ==
    /\ CanDerive
    /\ \E f \in 1..Len(classes), by_alias \in BOOLEAN :
          /\ classes[f].kind \in {"filter", "nested"}
          /\ \E fields \in {_list_to_str_fields(classes[f].fields)} :
                IF fields.raised # ""
                THEN /\ last' = [op |-> "FilterDepends", of |-> f, cls |-> 0,
                                 raised |-> fields.raised]
                     /\ UNCHANGED classes
                ELSE /\ last' = [op |-> "FilterDepends", of |-> f,
                                 cls |-> Len(classes) + 1, raised |-> ""]
                     /\ classes' = Append(
                            [classes EXCEPT ![f].fields = FieldsAfterAdapt(@)],
                            FilterWrapper(f, fields.ret, by_alias))
    /\ UNCHANGED <<modelAttrs, orderVars, consts, request>>

\* Filter(request...) for a declared or nested filter
Instantiate ==
    /\ \E c \in 1..Len(classes) :
          /\ classes[c].kind \in {"filter", "nested"}
          /\ last' = [op |-> "construct", cls |-> c,
                      res |-> Construct(classes, c, request, modelAttrs)]
    /\ UNCHANGED <<modelAttrs, orderVars, classes, consts, request>>

\* reading filtering_fields of the instance just constructed
ReadFilteringFields ==
    /\ last.op = "construct"
    /\ last.res.ok
    /\ last' = [op |-> "filtering_fields", inst |-> last.res.inst,
                items |-> filtering_fields(classes, last.res.inst)]
    /\ UNCHANGED <<modelAttrs, orderVars, classes, consts, request>>

\* the reconstruction rule of a nested filter on the request mapping
ValidateDict ==
    /\ \E c \in 1..Len(classes) :
          /\ classes[c].kind = "nested"
          /\ last' = [op |-> "plain_validator", cls |-> c, input |-> "dict",
                      res |-> plain_validator(classes, consts, c,
                                              [t |-> "dict", d |-> request],
                                              modelAttrs)]
    /\ UNCHANGED <<modelAttrs, orderVars, classes, consts, request>>

\* the reconstruction rule of a nested filter on the instance of the nested
\* class just constructed
ValidateModel ==
    /\ last.op = "construct"
    /\ last.res.ok
    /\ classes[last.cls].kind = "nested"
    /\ last' = [op |-> "plain_validator", cls |-> last.cls, input |-> "model",
                res |-> plain_validator(classes, consts, last.cls,
                                        [t |-> "model", inst |-> last.res.inst],
                                        modelAttrs)]
    /\ UNCHANGED <<modelAttrs, orderVars, classes, consts, request>>

\* the reconstruction rule of a nested filter on a value of another type
ValidateOther ==
    /\ \E c \in 1..Len(classes) :
          /\ classes[c].kind = "nested"
          /\ last' = [op |-> "plain_validator", cls |-> c, input |-> "other",
                      res |-> plain_validator(classes, consts, c,
                                              [t |-> "other"], modelAttrs)]
    /\ UNCHANGED <<modelAttrs, orderVars, classes, consts, request>>

\* the web framework binding the request's parameters: FilterWrapper(request...)
Bind ==
    /\ \E c \in 1..Len(classes) :
          /\ classes[c].kind = "wrapper"
          /\ last' = [op |-> "bind", cls |-> c,
                      res |-> Construct(classes, c, request, modelAttrs)]
    /\ UNCHANGED <<modelAttrs, orderVars, classes, consts, request>>

\* FilterWrapper.filter(query) on the bound instance
WrapperFilter ==
    /\ last.op = "bind"
    /\ last.res.ok
    /\ last' = [op |-> "call", self |-> last.res.inst,
                out |-> FilterWrapperCall(classes, last.res.inst, "filter", modelAttrs)]
    /\ UNCHANGED <<modelAttrs, orderVars, classes, consts, request>>

\* FilterWrapper.sort(query) on the bound instance
WrapperSort ==
    /\ last.op = "bind"
    /\ last.res.ok
    /\ last' = [op |-> "call", self |-> last.res.inst,
                out |-> FilterWrapperCall(classes, last.res.inst, "sort", modelAttrs)]
    /\ UNCHANGED <<modelAttrs, orderVars, classes, consts, request>>

InitSchema(fields) ==
    /\ modelAttrs = {X, NX}
    /\ value = <<None>>
    /\ raised = NoError
    /\ hist = <<>>
    /\ classes = <<FilterClass(fields)>>
    /\ consts = <<DeclaredConstants>>
    /\ last = [op |-> "none"]

Init ==
    /\ \E fields \in Schemas : InitSchema(fields)
    /\ request \in Requests

Next ==
    \/ WithPrefix
    \/ FilterDepends
    \/ Instantiate
    \/ ReadFilteringFields
    \/ ValidateDict
    \/ ValidateModel
    \/ ValidateOther
    \/ Bind
    \/ WrapperFilter
    \/ WrapperSort

Spec == Init /\ [][Next]_vars

(***************************************************************************)
(* _list_to_str_fields applied to the fields of a pool                     *)
(***************************************************************************)
PoolAnnotations ==
    {IntT, StrT, BareList, ListOf(StrT), ListOf(IntT),
     OptionalOf(IntT), OptionalOf(ListOf(StrT)), OptionalOf(BareList),
     UnionOf(<<NoneT, ListOf(IntT)>>),
     UnionOf(<<IntT, StrT, NoneT>>),
     UnionOf(<<ListOf(StrT), IntT, NoneT>>),
     UnionOf(<<ListOf(StrT), ListOf(IntT)>>)}

PoolDefaults ==
    {Undefined, NoneV, IntV(1), StrV(<<"a", "b">>)}
    \cup {ListV(l) : l \in SeqsUpTo({StrV(a), StrV(b), IntV(1)}, MaxDefaultLen)}

PoolFields == {Field(T, ann, def) : ann \in PoolAnnotations, def \in PoolDefaults}

\* a pool field alone, or before or after a scalar field
PoolSchemas ==
    {<<f>> : f \in PoolFields}
    \cup {<<f, Field(X, OptionalOf(IntT), NoneV)>> : f \in PoolFields}
    \cup {<<Field(X, IntT, Undefined), f>> : f \in PoolFields}

InitAdapt ==
    /\ \E fields \in PoolSchemas : InitSchema(fields)
    /\ request = <<>>

NextAdapt == FilterDepends

SpecAdapt == InitAdapt /\ [][NextAdapt]_vars

(***************************************************************************)
(* Claims about the schemas (C9 under SpecAdapt, the others under Spec)    *)
(***************************************************************************)
Wrappers == {w \in 1..Len(classes) : classes[w].kind = "wrapper"}

\* a request keyed by prefix__name for names of the filter's fields only
PrefixedRequest(prefix, fields) ==
    \A i \in 1..Len(request) :
        \E j \in 1..Len(fields) :
            request[i].k = prefix \o <<"_", "_">> \o fields[j].name

\* the request with prefix__ taken off every key
Unprefixed(prefix) ==
    [i \in 1..Len(request) |->
        Pair(SubSeq(request[i].k, Len(prefix) + 3, Len(request[i].k)), request[i].v)]

\* C3: the reconstruction rule of with_prefix(p, Original), applied to a
\* mapping keyed by p__x or to the instance of the prefixed class built from
\* it, gives the Original instance that the un-prefixed mapping gives.
C3_PrefixRoundTrip ==
    (/\ last.op = "plain_validator"
     /\ last.input \in {"dict", "model"}
     /\ PrefixedRequest(classes[last.cls].prefix, classes[classes[last.cls].of].fields))
    => \A direct \in {Construct(classes, classes[last.cls].of,
                                Unprefixed(classes[last.cls].prefix), modelAttrs)} :
          direct.ok => (last.res.raised = "" /\ last.res.inst = direct.inst)

\* the default of field i of class c is a list and the field is list-typed
HasListDefault(c, i) ==
    /\ classes[c].fields[i].default.t = "list"
    /\ \/ classes[c].fields[i].annotation.origin = "list"
       \/ /\ classes[c].fields[i].annotation.origin = "Union"
          /\ \E k \in 1..Len(classes[c].fields[i].annotation.args) :
                classes[c].fields[i].annotation.args[k].origin = "list"

\* C4: a list value [v1,...,vn] of a list-typed field has the adapted string
\* form "v1,...,vn", and FilterWrapper.filter/sort parses that string back
\* into the list when it reconstructs the original schema.
C4_ListRoundTrip ==
    /\ (last.op = "FilterDepends") => (last.raised = "")
    /\ \A w \in Wrappers : \A i \in 1..Len(classes[w].fields) :
          HasListDefault(classes[w].of, i) =>
             /\ classes[w].fields[i].default.t = "str"
             /\ Split(classes[w].fields[i].default.v, ",")
                   = [k \in 1..Len(classes[classes[w].of].fields[i].default.v) |->
                         classes[classes[w].of].fields[i].default.v[k].v]
    /\ (last.op = "call") =>
          \A i \in 1..Len(classes[last.self.cls].fields) :
             (/\ HasListDefault(classes[last.self.cls].of, i)
              /\ classes[last.self.cls].fields[i].name \notin last.self.set
              /\ last.out.delegated)
             => last.out.original_filter.vals[i]
                   = classes[classes[last.self.cls].of].fields[i].default

\* C5: filter/sort delegate only once the original schema has been
\* reconstructed in full; when reconstruction raises a validation error
\* nothing is delegated and RequestValidationError is raised with the same
\* error records, never the ValidationError itself.
C5_DelegateAfterReconstruction ==
    (last.op = "call") =>
        /\ last.out.delegated =>
              /\ last.out.validation.ok
              /\ last.out.original_filter = last.out.validation.inst
              /\ Len(last.out.original_filter.vals)
                    = Len(classes[classes[last.self.cls].of].fields)
              /\ last.out.steps = <<"model_dump", "Filter", last.out.method>>
              /\ last.out.raised = ""
        /\ ~last.out.validation.ok =>
              /\ ~last.out.delegated
              /\ \A i \in 1..Len(last.out.steps) : last.out.steps[i] # last.out.method
              /\ last.out.raised = "RequestValidationError"
              /\ last.out.errors = last.out.validation.errors
              /\ last.out.errors # <<>>
        /\ last.out.raised # "ValidationError"

\* reconstruction failed on the ordering rule: a duplicated ordering field
C5_Witness ==
    /\ last.op = "call"
    /\ ~last.out.delegated
    /\ last.out.raised = "RequestValidationError"
    /\ \E i \in 1..Len(last.out.errors) :
          /\ last.out.errors[i].type = "value_error"
          /\ last.out.errors[i].ctx.kind = "ambiguous"

\* C6: every schema is closed: input naming a field the schema does not
\* declare is rejected by the original, the prefixed and the adapted schema.
C6_ClosedSchemas ==
    (/\ last.op \in {"construct", "bind"}
     /\ \E i \in 1..Len(request) :
           \A j \in 1..Len(classes[last.cls].fields) :
              request[i].k # FieldKey(classes[last.cls].fields[j]))
    => ~last.res.ok

\* the fields filtering_fields is to list: supplied in the request, not
\* null, not the ordering field
Listed(cls, inst, i) ==
    /\ HasKey(request, FieldKey(cls.fields[i]))
    /\ inst.vals[i] # NoneV
    /\ cls.fields[i].name # ordering_field_name

\* C7: filtering_fields holds no ordering field, no field that was not
\* supplied, no field whose value is null, and every other field with its
\* value, in declaration order.
C7_FilteringFields ==
    (last.op = "filtering_fields") =>
        /\ \A i \in 1..Len(last.items) :
              /\ last.items[i].k # ordering_field_name
              /\ last.items[i].v # NoneV
              /\ \E j \in 1..Len(classes[last.inst.cls].fields) :
                    /\ classes[last.inst.cls].fields[j].name = last.items[i].k
                    /\ HasKey(request, FieldKey(classes[last.inst.cls].fields[j]))
        /\ last.items
              = [k \in 1..Cardinality({i \in 1..Len(last.inst.vals) :
                                          Listed(classes[last.inst.cls], last.inst, i)}) |->
                    LET i == CHOOSE i \in 1..Len(last.inst.vals) :
                                /\ Listed(classes[last.inst.cls], last.inst, i)
                                /\ Cardinality({j \in 1..i :
                                      Listed(classes[last.inst.cls], last.inst, j)}) = k
                    IN  Pair(classes[last.inst.cls].fields[i].name, last.inst.vals[i])]

\* a supplied field is listed while the supplied, non-null ordering field
\* and a field left at its non-null default are not
C7_Witness ==
    /\ last.op = "filtering_fields"
    /\ Len(last.items) = 1
    /\ \E i, j \in 1..Len(last.inst.vals) :
          /\ classes[last.inst.cls].fields[i].name = ordering_field_name
          /\ ordering_field_name \in last.inst.set
          /\ last.inst.vals[i] # NoneV
          /\ classes[last.inst.cls].fields[j].name \notin last.inst.set
          /\ last.inst.vals[j] # NoneV

\* the required-ness, name and type the claim gives field i of the adapted
\* schema
ListTyped(annotation) ==
    LET alternatives == SelectSeq(annotation.args, LAMBDA t : t # NoneT)
        unwrapped == IF annotation.origin = "Union" /\ Len(alternatives) = 1
                     THEN alternatives[1] ELSE annotation
    IN  unwrapped = BareList \/ unwrapped.origin = "list"

C10_SourceUnchanged ==
    [][/\ \A i \in 1..Len(classes) :
             /\ classes'[i] = classes[i]
             /\ ConstantsPrefix(consts', classes'[i].constants)
                   = ConstantsPrefix(consts, classes[i].constants)
       /\ \A i \in 1..Len(classes') :
             classes'[i].kind = "nested" =>
                ConstantsPrefix(consts', classes'[i].constants)
                   = [found |-> TRUE, prefix |-> classes'[i].prefix]]_vars

\* a filter with a list default has a nested filter and an adapted schema
C10_Witness ==
    /\ Len(classes) = 3
    /\ classes[2].kind = "nested"
    /\ classes[3].kind = "wrapper"
    /\ classes[3].of = 1
    /\ \E i \in 1..Len(classes[1].fields) :
          /\ classes[1].fields[i].default.t = "list"
          /\ classes[3].fields[i].default.t = "str"
    /\ ~ConstantsPrefix(consts, classes[1].constants).found

====
